---------------------------- MODULE Spec2Model ----------------------------
(***************************************************************************)
(* Model of the Stripe checkout handler, POST /api/create-checkout-session *)
(* (src/server.js lines 116-191, and its older variant in                  *)
(* src/unnamed/part_000 lines 85-135).                                     *)
(*                                                                         *)
(* A handler run is a sequence of run-to-completion segments separated by  *)
(* its two awaits: the Price Store lookup (supabase ... .in("id", ids))    *)
(* and the Payment Session Service call (stripe.checkout.sessions.create). *)
(* Each segment is one action.  The locals of one run (items, priceById,   *)
(* line_items) are kept per request.                                       *)
(*                                                                         *)
(* The password reset handlers (src/server.js lines 291-377) are modelled  *)
(* the same way, one run of each at a time, over the token table, the      *)
(* users' passwords and a clock.                                           *)
(*                                                                         *)
(* JavaScript values are records [t, n, s]: t is the type tag, n the value *)
(* of a finite number in thousandths (19.99 is 19990, the integer 2 is     *)
(* 2000), s the text of a string.  Binary floating point rounding error    *)
(* below one thousandth is not modelled.                                   *)
(*                                                                         *)
(* Of the session request only line_items and items[0].id (in success_url) *)
(* are kept: customer_email, FRONTEND_URL and the fixed fields take no     *)
(* part in the handler's control flow.                                     *)
(***************************************************************************)
EXTENDS Integers, Sequences, FiniteSets, TLC

VARIABLES
    handler,     \* which source file's handler runs: "server.js" or "part_000"
    store,       \* the products table: id -> stored price (a JS value)
    pc,          \* per request: "idle", "lookup", "pay", "done"
    body,        \* per request: req.body
    priceById,   \* per request: the local id -> price mapping
    payReq,      \* per request: argument of stripe.checkout.sessions.create
    response,    \* per request: what res.status(..).json(..) sent
    log,         \* per request: external calls and responses, in order
    lookupOut,   \* per request: what the Price Store answered
    payOut,      \* per request: what the Payment Session Service answered
    now,         \* the clock (Date.now()), in ticks
    tokens,      \* the password_reset_tokens table: a set of rows
    nextToken,   \* how many tokens crypto.randomBytes has produced, plus one
    passwords,   \* the passwords of the users (Supabase Auth)
    applied,     \* the password updates that took effect: [token, user_id]
    requestRun,          \* the run of POST /api/request-password-reset
    resetRun           \* the run of POST /api/reset-password

checkoutVars == <<handler, store, pc, body, priceById, payReq, response, log,
                  lookupOut, payOut>>
resetVars == <<now, tokens, nextToken, passwords, applied, requestRun, resetRun>>
vars == <<handler, store, pc, body, priceById, payReq, response, log,
          lookupOut, payOut, now, tokens, nextToken, passwords, applied,
          requestRun, resetRun>>

-----------------------------------------------------------------------------
(* JavaScript values *)

Undef  == [t |-> "undefined", n |-> 0, s |-> ""]
Null   == [t |-> "null", n |-> 0, s |-> ""]
NaN    == [t |-> "nan", n |-> 0, s |-> ""]
PosInf == [t |-> "inf", n |-> 0, s |-> ""]
NegInf == [t |-> "neginf", n |-> 0, s |-> ""]
\* a finite positive double above Number.MAX_VALUE / 100, such as 1e307
Huge   == [t |-> "huge", n |-> 0, s |-> ""]
\* an object or function, such as Object.prototype.constructor
Obj    == [t |-> "object", n |-> 0, s |-> ""]
Num(m) == [t |-> "number", n |-> m, s |-> ""]
Str(x) == [t |-> "string", n |-> 0, s |-> x]

\* Number("...") on the string literals the model uses
ParseNumber(x) ==
    CASE x = "" -> Num(0)
      [] x = "0" -> Num(0)
      [] x = "3" -> Num(3000)
      [] x = "12.50" -> Num(12500)
      [] x = "-1" -> Num(-1000)
      [] x = "Infinity" -> PosInf
      [] OTHER -> NaN

\* Number(val)
ToNumber(v) ==
    CASE v.t = "undefined" -> NaN
      [] v.t = "null" -> Num(0)
      [] v.t = "string" -> ParseNumber(v.s)
      [] v.t = "object" -> NaN
      [] OTHER -> v

\* the truthiness test of ||, &&, ! and filter(Boolean)
Truthy(v) ==
    CASE v.t \in {"undefined", "null", "nan"} -> FALSE
      [] v.t = "number" -> v.n # 0
      [] v.t = "string" -> v.s # ""
      [] OTHER -> TRUE

\* isFinite(n), n a number
isFinite(n) == n.t \in {"number", "huge"}

\* n <= 0, n a number
LeqZero(n) == \/ n.t = "neginf"
              \/ n.t = "number" /\ n.n <= 0

\* v > 0, with the operand coerced by Number
GtZero(v) == LET n == ToNumber(v)
             IN  \/ n.t \in {"inf", "huge"}
                 \/ n.t = "number" /\ n.n > 0

\* n * 100: a finite double above MAX_VALUE / 100 overflows to Infinity
Times100(n) ==
    CASE n.t = "number" -> Num(n.n * 100)
      [] n.t = "huge" -> PosInf
      [] OTHER -> n

\* Math.round(n): the nearest integer, halves toward +Infinity
MathRound(n) ==
    IF n.t = "number" THEN Num(((n.n + 500) \div 1000) * 1000) ELSE n

\* x != null
NotNullish(v) == v.t \notin {"undefined", "null"}


-----------------------------------------------------------------------------
(* The pure parts of the handler *)

\* const items = cartItems || cart  (an array is truthy, also when empty)
ItemsOf(b) == IF b.cartItems.present THEN b.cartItems ELSE b.cart

\* a guard that tests only for a missing cart
CartIsEmpty_absentOnly(items) == ~items.present

\* !items || items.length === 0
CartIsEmpty(items) == ~items.present \/ Len(items.elems) = 0

\* const ids = items.map((it) => it.id).filter(Boolean)
IdsOf(elems) == SelectSeq([i \in 1..Len(elems) |-> elems[i].id], Truthy)

\* a lookup issued for every cart
LookupNeeded_always(ids) == Len(ids) >= 0

\* if (ids.length)
LookupNeeded(ids) == Len(ids) > 0

\* .from("products").select("id, price").in("id", ids)
SelectIn(tbl, ids) ==
    LET want == {ids[i].s : i \in 1..Len(ids)}
    IN  [k \in (DOMAIN tbl) \cap want |-> tbl[k]]

\* for (const r of rows || []) priceById[r.id] = Number(r.price)
\* (nothing is assigned when the lookup returned an error)
PriceMapOf(out) ==
    IF out.kind = "rows"
    THEN [k \in DOMAIN out.rows |-> ToNumber(out.rows[k])]
    ELSE [k \in {} |-> NaN]

\* property names every object literal inherits from Object.prototype
PrototypeKeys == {"constructor"}

\* priceById[item.id]
PropRead(pb, id) ==
    IF id.s \in DOMAIN pb THEN pb[id.s]
    ELSE IF id.s \in PrototypeKeys THEN Obj
    ELSE Undef

\* server.js: const toCents = (val) => { ... }
toCents(val) ==
    LET n == ToNumber(val)
    IN  IF ~isFinite(n) \/ LeqZero(n) THEN Num(0) ELSE MathRound(Times100(n))

\* part_000: const toCents = val => Math.round(Number(val) * 100)
toCents_part000(val) == MathRound(Times100(ToNumber(val)))

ToCentsIn(h, val) ==
    IF h = "server.js" THEN toCents(val) ELSE toCents_part000(val)

\* the title taken before the name
productName_titleFirst(item, idx) ==
    IF Truthy(item.title) THEN item.title.s
    ELSE IF Truthy(item.name) THEN item.name.s
    ELSE "Item " \o ToString(idx)

\* item.name || item.title || `Item ${idx + 1}`
productName(item, idx) ==
    IF Truthy(item.name) THEN item.name.s
    ELSE IF Truthy(item.title) THEN item.title.s
    ELSE "Item " \o ToString(idx)

\* item.quantity && item.quantity > 0 ? item.quantity : 1
qty(item) ==
    IF Truthy(item.quantity) /\ GtZero(item.quantity)
    THEN item.quantity ELSE Num(1000)

\* the client's price taken whenever it is a number
priceDollars_clientFirst(item, pb) ==
    IF Truthy(ToNumber(item.price)) \/ ~Truthy(item.id)
    THEN ToNumber(item.price) ELSE PropRead(pb, item.id)

\* item.id && priceById[item.id] != null ? priceById[item.id] : Number(item.price)
priceDollars(item, pb) ==
    IF Truthy(item.id) /\ NotNullish(PropRead(pb, item.id))
    THEN PropRead(pb, item.id) ELSE ToNumber(item.price)

\* item.image_url ? [item.image_url] : []
productImages(item) ==
    IF Truthy(item.image_url) THEN <<item.image_url.s>> ELSE <<>>

NoError == [msg |-> "", name |-> "", got |-> Undef]

\* new Error(`Invalid price for item "${productName}". Got ${priceDollars}`)
\* (part_000 has no "Got" part)
InvalidPrice(h, name, got) ==
    [msg |-> "Invalid price for item", name |-> name,
     got |-> IF h = "server.js" THEN got ELSE Undef]

\* the callback of items.map, for the item at 1-based position idx
MapItem(h, item, idx, pb) ==
    LET cents == ToCentsIn(h, priceDollars(item, pb))
    IN  [threw |-> ~Truthy(cents),
         error |-> InvalidPrice(h, productName(item, idx), priceDollars(item, pb)),
         li    |-> [name |-> productName(item, idx),
                    images |-> productImages(item),
                    unit_amount |-> cents,
                    quantity |-> qty(item)]]

\* const line_items = items.map(...): the first throw ends the map
BuildLineItems(h, elems, pb) ==
    LET rs  == [i \in 1..Len(elems) |-> MapItem(h, elems[i], i, pb)]
        bad == {i \in 1..Len(elems) : rs[i].threw}
    IN  IF bad # {}
        THEN [threw |-> TRUE,
              error |-> rs[CHOOSE i \in bad : \A j \in bad : i <= j].error,
              line_items |-> <<>>]
        ELSE [threw |-> FALSE, error |-> NoError,
              line_items |-> [i \in 1..Len(elems) |-> rs[i].li]]

\* res.status(400).json({ error: "Cart is empty" })
EmptyCartResponse ==
    [status |-> 400, error |-> [NoError EXCEPT !.msg = "Cart is empty"],
     url |-> "", id |-> ""]

\* catch (error): res.status(500).json({ error: error.message })
ErrorResponse(err) == [status |-> 500, error |-> err, url |-> "", id |-> ""]

\* the session id sent in place of the redirect URL
SessionResponse_idAsUrl(session) ==
    [status |-> 200, error |-> [msg |-> "", name |-> "", got |-> Undef],
     url |-> session.id, id |-> session.id]

\* res.json({ url: session.url, id: session.id })
SessionResponse(session) ==
    [status |-> 200, error |-> NoError, url |-> session.url, id |-> session.id]

NoResponse == [status |-> 0, error |-> NoError, url |-> "", id |-> ""]
NoPayReq   == [line_items |-> <<>>, first_id |-> Undef]
NoOutcome  == [kind |-> "none"]


-----------------------------------------------------------------------------
(* Requests, carts and the Price Store *)

Reqs == {"r1", "r2"}

\* longest cart a request carries
MaxCart == 2

Item(id, name, title, price, quantity, image_url) ==
    [id |-> id, name |-> name, title |-> title, price |-> price,
     quantity |-> quantity, image_url |-> image_url]

\* The cart items of the model.  Client prices: valid, zero, negative, one
\* that rounds to 0 cents, overflowing, infinite (JSON 1e999), non-numeric,
\* missing.  Quantities: missing, null, zero, negative, integer, fractional,
\* numeric string.  Ids: missing, empty, in the store or not, and a property
\* name of Object.prototype.
Items ==
    {Item(Undef, Str("A"), Undef, Num(19990), Undef, Undef),
     Item(Undef, Undef, Undef, Num(0), Undef, Undef),
     Item(Str(""), Str("A"), Undef, Num(-5000), Undef, Undef),
     Item(Undef, Str(""), Str("T"), Num(4), Undef, Undef),
     Item(Undef, Str("A"), Undef, Huge, Null, Undef),
     Item(Undef, Undef, Str("T"), PosInf, Undef, Undef),
     Item(Str("p1"), Str("P"), Undef, Undef, Undef, Undef),
     Item(Str("p2"), Undef, Str("T"), Num(100000), Num(2000), Undef),
     Item(Str("p2"), Str("Q"), Undef, Str("abc"), Undef, Undef),
     Item(Str("constructor"), Str("C"), Undef, Num(19990), Undef, Undef),
     Item(Undef, Str(""), Str("T"), Num(19990), Num(0), Undef),
     Item(Undef, Undef, Str("T"), Num(19990), Num(-1000), Undef),
     Item(Undef, Undef, Undef, Num(19990), Num(2500), Str("img")),
     Item(Undef, Str("N"), Str("T"), Str("12.50"), Str("3"), Undef)}

SeqsUpTo(S, n) == UNION {[1..k -> S] : k \in 0..n}

Arr(elems) == [present |-> TRUE, elems |-> elems]
Absent     == [present |-> FALSE, elems |-> <<>>]

\* req.body: cartItems, or cart, or neither, or an empty cartItems beside a cart
Bodies ==
    {[cartItems |-> Arr(c), cart |-> Absent] : c \in SeqsUpTo(Items, MaxCart)}
    \cup {[cartItems |-> Absent, cart |-> Arr(c)] : c \in SeqsUpTo(Items, 1)}
    \cup {[cartItems |-> Arr(<<>>), cart |-> Arr(c)] : c \in SeqsUpTo(Items, 1)}
    \cup {[cartItems |-> Absent, cart |-> Absent]}

\* the bodies of the two-request interleavings
ConcItems ==
    {Item(Str("p1"), Str("P"), Undef, Num(100000), Undef, Undef),
     Item(Str("p2"), Str("Q"), Undef, Num(19990), Num(2000), Undef),
     Item(Undef, Str("A"), Undef, Num(19990), Undef, Undef),
     Item(Undef, Undef, Str("T"), Num(0), Undef, Undef)}

ConcBodies ==
    {[cartItems |-> Arr(c), cart |-> Absent] : c \in SeqsUpTo(ConcItems, 1)}
    \cup {[cartItems |-> Arr(<<Item(Str("p1"), Str("P"), Undef, Undef, Undef, Undef), i>>),
           cart |-> Absent] : i \in ConcItems}

\* contents of the products table (id -> price column)
Stores ==
    { ("p1" :> Num(19990)) @@ ("p2" :> Str("12.50")) @@ ("constructor" :> Num(5000)),
      ("p1" :> Num(-5000)) @@ ("p2" :> Null),
      ("p1" :> Huge) }

\* what the Payment Session Service may return
Sessions == {[url |-> "u1", id |-> "s1"], [url |-> "u2", id |-> "s2"]}

-----------------------------------------------------------------------------
(* The handler *)

\* one mapping shared by all requests
StorePrices_shared(pb, r, m) == [q \in DOMAIN pb |-> m]

\* priceById[r.id] = ... writes the mapping of this request only
StorePrices(pb, r, m) == [pb EXCEPT ![r] = m]

\* items[0].id in the success_url template: a TypeError on an empty array
TypeError == [NoError EXCEPT !.msg = "Cannot read properties of undefined"]

\* lines 137-184: build line_items and the session request; a throw goes to
\* the catch (500), else the Payment Session Service is called
BuildAndPay(r, elems, pb, lg) ==
    LET res == BuildLineItems(handler, elems, pb)
    IN  IF res.threw \/ Len(elems) = 0
        THEN /\ pc' = [pc EXCEPT ![r] = "done"]
             /\ response' = [response EXCEPT ![r] =
                   ErrorResponse(IF res.threw THEN res.error ELSE TypeError)]
             /\ log' = [log EXCEPT ![r] = lg \o <<"respond">>]
             /\ UNCHANGED payReq
        ELSE /\ pc' = [pc EXCEPT ![r] = "pay"]
             /\ payReq' = [payReq EXCEPT ![r] =
                              [line_items |-> res.line_items,
                               first_id |-> elems[1].id]]
             /\ log' = [log EXCEPT ![r] = lg \o <<"pay_call">>]
             /\ UNCHANGED response

\* the request arrives; the handler runs to its first await or to its response
Receive(r, b) ==
    /\ pc[r] = "idle"
    /\ body' = [body EXCEPT ![r] = b]
    /\ LET items == ItemsOf(b)
           ids   == IdsOf(items.elems)
       IN  IF CartIsEmpty(items)
           THEN /\ pc' = [pc EXCEPT ![r] = "done"]
                /\ response' = [response EXCEPT ![r] = EmptyCartResponse]
                /\ log' = [log EXCEPT ![r] = <<"respond">>]
                /\ UNCHANGED <<priceById, payReq>>
           ELSE IF LookupNeeded(ids)
           THEN /\ pc' = [pc EXCEPT ![r] = "lookup"]
                /\ log' = [log EXCEPT ![r] = <<"lookup_call">>]
                /\ UNCHANGED <<priceById, payReq, response>>
           ELSE /\ BuildAndPay(r, items.elems, priceById[r], <<>>)
                /\ UNCHANGED priceById
    /\ UNCHANGED <<handler, store, lookupOut, payOut>>
    /\ UNCHANGED resetVars

\* what the await of the lookup can produce: rows, no rows and no error, an
\* error object, or a rejected promise
LookupOutcomes(ids) ==
    {[kind |-> "rows", rows |-> SelectIn(store, ids)],
     [kind |-> "null", rows |-> SelectIn(store, <<>>)],
     [kind |-> "error", rows |-> SelectIn(store, <<>>)],
     [kind |-> "throw", rows |-> SelectIn(store, <<>>)]}

LookupFailed == [NoError EXCEPT !.msg = "lookup failed"]

\* the lookup's await ends; the handler runs on to the payment call or to the
\* catch
LookupReturn(r, out) ==
    /\ pc[r] = "lookup"
    /\ lookupOut' = [lookupOut EXCEPT ![r] = out]
    /\ IF out.kind = "throw"
       THEN /\ pc' = [pc EXCEPT ![r] = "done"]
            /\ response' = [response EXCEPT ![r] = ErrorResponse(LookupFailed)]
            /\ log' = [log EXCEPT ![r] = log[r] \o <<"lookup_return", "respond">>]
            /\ UNCHANGED <<priceById, payReq>>
       ELSE /\ priceById' = StorePrices(priceById, r, PriceMapOf(out))
            /\ BuildAndPay(r, ItemsOf(body[r]).elems, priceById'[r],
                           log[r] \o <<"lookup_return">>)
    /\ UNCHANGED <<handler, store, body, payOut>>
    /\ UNCHANGED resetVars

PayOutcomes ==
    {[kind |-> "session", url |-> s.url, id |-> s.id] : s \in Sessions}
    \cup {[kind |-> "throw", url |-> "", id |-> ""]}

PayFailed == [NoError EXCEPT !.msg = "payment failed"]

\* the await of stripe.checkout.sessions.create ends
PayReturn(r, out) ==
    /\ pc[r] = "pay"
    /\ payOut' = [payOut EXCEPT ![r] = out]
    /\ pc' = [pc EXCEPT ![r] = "done"]
    /\ response' = [response EXCEPT ![r] =
                       IF out.kind = "session" THEN SessionResponse(out)
                       ELSE ErrorResponse(PayFailed)]
    /\ log' = [log EXCEPT ![r] = log[r] \o <<"pay_return", "respond">>]
    /\ UNCHANGED <<handler, store, body, priceById, payReq, lookupOut>>
    /\ UNCHANGED resetVars

EmptyMap == [k \in {} |-> NaN]
NoBody   == [cartItems |-> Absent, cart |-> Absent]

\* the run is over: its locals are gone
Forget(r) ==
    /\ pc[r] = "done"
    /\ pc' = [pc EXCEPT ![r] = "idle"]
    /\ body' = [body EXCEPT ![r] = NoBody]
    /\ priceById' = [priceById EXCEPT ![r] = EmptyMap]
    /\ payReq' = [payReq EXCEPT ![r] = NoPayReq]
    /\ response' = [response EXCEPT ![r] = NoResponse]
    /\ log' = [log EXCEPT ![r] = <<>>]
    /\ lookupOut' = [lookupOut EXCEPT ![r] = NoOutcome]
    /\ payOut' = [payOut EXCEPT ![r] = NoOutcome]
    /\ UNCHANGED <<handler, store>>
    /\ UNCHANGED resetVars

-----------------------------------------------------------------------------
(* Password reset: POST /api/request-password-reset and /api/reset-password *)

\* tokens issued in a behaviour
MaxTokens == 2

\* last tick of the clock
MaxTime == 3

\* 1000 * 60 * 60 ms, in clock ticks of half an hour
TokenTtl == 2

\* the users table: email -> id
UsersTable == ("a@x" :> "u1") @@ ("b@x" :> "u2")
Users == {UsersTable[e] : e \in DOMAIN UsersTable}

\* req.body.email: missing, of a user, of nobody
Emails == {"", "a@x", "b@x", "z@x"}

\* crypto.randomBytes(32).toString("hex"): a string no earlier call returned
TokenName(i) == "t" \o ToString(i)

\* req.body.token: missing, or some string, a stored token or not
TokenInputs == {""} \cup {TokenName(i) : i \in 1..MaxTokens}

\* req.body.newPassword: missing or a password
PasswordInputs == {"", "pwA"}

InitialPassword == "pw0"

\* expiresAt.toISOString(): the instant, to the millisecond
toISOString(d) == [iso |-> d]

\* new Date(resetData.expires_at)
DateOf(s) == s.iso

\* const expiresAt = new Date(Date.now() + 1000 * 60 * 60)
ExpiresAt(t) == t + TokenTtl

\* an insert that drops the user's earlier tokens
InsertToken_replacing(tbl, row) ==
    {x \in tbl : x.user_id # row.user_id} \cup {row}

\* supabase.from("password_reset_tokens").insert({user_id, token, expires_at})
InsertToken(tbl, row) == tbl \cup {row}

\* the comparison the wrong way round
Expired_reversed(expires_at, t) == DateOf(expires_at) > t

\* new Date(resetData.expires_at) < new Date()
Expired(expires_at, t) == DateOf(expires_at) < t

NoRow == [token |-> "", user_id |-> "", expires_at |-> toISOString(0)]

\* .from("password_reset_tokens").select("user_id, expires_at")
\* .eq("token", token).maybeSingle(): the row, or null
SelectToken(tbl, token) ==
    IF \E x \in tbl : x.token = token
    THEN CHOOSE x \in tbl : x.token = token
    ELSE NoRow

RqIdle == [pc |-> "idle", email |-> "", user |-> "", token |-> "",
           expires_at |-> toISOString(0), status |-> 0, error |-> ""]

RsIdle == [pc |-> "idle", token |-> "", newPassword |-> "", select |-> "none",
           row |-> NoRow, checkedAt |-> 0, reused |-> FALSE, sibling |-> FALSE,
           updateCalls |-> 0, target |-> "", update |-> "none",
           status |-> 0, error |-> ""]

ResetInit ==
    /\ now = 0
    /\ tokens = {}
    /\ nextToken = 1
    /\ passwords = [u \in Users |-> InitialPassword]
    /\ applied = {}
    /\ requestRun = RqIdle
    /\ resetRun = RsIdle

\* the clock advances
Tick ==
    /\ now < MaxTime
    /\ now' = now + 1
    /\ UNCHANGED <<tokens, nextToken, passwords, applied, requestRun, resetRun>>
    /\ UNCHANGED checkoutVars

\* lines 292-301: the request arrives; 400 without an email, else the user
\* is looked up
RqReceive(email) ==
    /\ requestRun.pc = "idle"
    /\ nextToken <= MaxTokens
    /\ requestRun' = IF email = ""
             THEN [requestRun EXCEPT !.pc = "done", !.status = 400,
                             !.error = "Email required"]
             ELSE [requestRun EXCEPT !.pc = "find", !.email = email]
    /\ UNCHANGED <<now, tokens, nextToken, passwords, applied, resetRun>>
    /\ UNCHANGED checkoutVars

\* lines 303-314: the user lookup ends; 404 without a user, else a token is
\* drawn, its expiry set one hour ahead, and the insert issued
RqFindReturn(out) ==
    /\ requestRun.pc = "find"
    /\ IF out = "throw"
       THEN /\ requestRun' = [requestRun EXCEPT !.pc = "done", !.status = 500,
                                !.error = "Failed to send reset email"]
            /\ UNCHANGED nextToken
       ELSE IF out = "error" \/ requestRun.email \notin DOMAIN UsersTable
       THEN /\ requestRun' = [requestRun EXCEPT !.pc = "done", !.status = 404,
                                !.error = "User not found"]
            /\ UNCHANGED nextToken
       ELSE /\ requestRun' = [requestRun EXCEPT !.pc = "insert",
                                !.user = UsersTable[requestRun.email],
                                !.token = TokenName(nextToken),
                                !.expires_at = toISOString(ExpiresAt(now))]
            /\ nextToken' = nextToken + 1
    /\ UNCHANGED <<now, tokens, passwords, applied, resetRun>>
    /\ UNCHANGED checkoutVars

\* lines 310-333: the insert ends (its result is not looked at) and the mail
\* is sent; a rejected insert goes to the catch
RqInsertReturn(out) ==
    /\ requestRun.pc = "insert"
    /\ tokens' = IF out = "ok"
                 THEN InsertToken(tokens, [token |-> requestRun.token,
                                           user_id |-> requestRun.user,
                                           expires_at |-> requestRun.expires_at])
                 ELSE tokens
    /\ requestRun' = IF out = "throw"
             THEN [requestRun EXCEPT !.pc = "done", !.status = 500,
                             !.error = "Failed to send reset email"]
             ELSE [requestRun EXCEPT !.pc = "mail"]
    /\ UNCHANGED <<now, nextToken, passwords, applied, resetRun>>
    /\ UNCHANGED checkoutVars

\* lines 318-339: the mail is sent or not
RqMailReturn(out) ==
    /\ requestRun.pc = "mail"
    /\ requestRun' = IF out = "ok"
             THEN [requestRun EXCEPT !.pc = "done", !.status = 200]
             ELSE [requestRun EXCEPT !.pc = "done", !.status = 500,
                             !.error = "Failed to send reset email"]
    /\ UNCHANGED <<now, tokens, nextToken, passwords, applied, resetRun>>
    /\ UNCHANGED checkoutVars

RqForget ==
    /\ requestRun.pc = "done"
    /\ requestRun' = RqIdle
    /\ UNCHANGED <<now, tokens, nextToken, passwords, applied, resetRun>>
    /\ UNCHANGED checkoutVars

\* lines 346-355: the request arrives; 400 without token or newPassword, else
\* the token's row is selected
RsReceive(token, newPassword) ==
    /\ resetRun.pc = "idle"
    /\ resetRun' = IF token = "" \/ newPassword = ""
             THEN [resetRun EXCEPT !.pc = "done", !.token = token,
                             !.newPassword = newPassword,
                             !.status = 400, !.error = "Missing data"]
             ELSE [resetRun EXCEPT !.pc = "select", !.token = token,
                             !.newPassword = newPassword]
    /\ UNCHANGED <<now, tokens, nextToken, passwords, applied, requestRun>>
    /\ UNCHANGED checkoutVars

\* lines 357-367: the select ends; 400 for an error or no row, 400 for an
\* expired row, else updateUserById is called for the row's user
RsSelectReturn(out) ==
    /\ resetRun.pc = "select"
    /\ LET row  == IF out = "data" THEN SelectToken(tokens, resetRun.token) ELSE NoRow
           seen == [resetRun EXCEPT !.select = out, !.row = row, !.checkedAt = now,
                      !.reused = \E a \in applied : a.token = resetRun.token,
                      !.sibling = \E x \in tokens :
                           x.user_id = row.user_id /\ x.token # row.token]
       IN  resetRun' = IF out = "throw"
                 THEN [seen EXCEPT !.pc = "done", !.status = 500,
                                   !.error = "Failed to reset password"]
                 ELSE IF out = "error" \/ row = NoRow
                 THEN [seen EXCEPT !.pc = "done", !.status = 400,
                                   !.error = "Invalid token"]
                 ELSE IF Expired(row.expires_at, now)
                 THEN [seen EXCEPT !.pc = "done", !.status = 400,
                                   !.error = "Token expired"]
                 ELSE [seen EXCEPT !.pc = "update", !.updateCalls = @ + 1,
                                   !.target = row.user_id]
    /\ UNCHANGED <<now, tokens, nextToken, passwords, applied, requestRun>>
    /\ UNCHANGED checkoutVars

\* what updateUserById can end in: done, an error object, a rejection after
\* or before the password was changed
UpdateOutcomes == {"ok", "error", "throw", "throw_applied"}

\* lines 364-376: the update ends
RsUpdateReturn(out) ==
    /\ resetRun.pc = "update"
    /\ IF out \in {"ok", "throw_applied"}
       THEN /\ passwords' = [passwords EXCEPT ![resetRun.target] = resetRun.newPassword]
            /\ applied' = applied \cup {[token |-> resetRun.token, user_id |-> resetRun.target]}
       ELSE UNCHANGED <<passwords, applied>>
    /\ resetRun' = CASE out = "ok" ->
                    [resetRun EXCEPT !.pc = "done", !.update = out, !.status = 200]
               [] out = "error" ->
                    [resetRun EXCEPT !.pc = "done", !.update = out, !.status = 500,
                               !.error = "Failed to update password"]
               [] OTHER ->
                    [resetRun EXCEPT !.pc = "done", !.update = out, !.status = 500,
                               !.error = "Failed to reset password"]
    /\ UNCHANGED <<now, tokens, nextToken, requestRun>>
    /\ UNCHANGED checkoutVars

RsForget ==
    /\ resetRun.pc = "done"
    /\ resetRun' = RsIdle
    /\ UNCHANGED <<now, tokens, nextToken, passwords, applied, requestRun>>
    /\ UNCHANGED checkoutVars

InitWith(h) ==
    /\ handler = h
    /\ store \in Stores
    /\ pc = [r \in Reqs |-> "idle"]
    /\ body = [r \in Reqs |-> NoBody]
    /\ priceById = [r \in Reqs |-> EmptyMap]
    /\ payReq = [r \in Reqs |-> NoPayReq]
    /\ response = [r \in Reqs |-> NoResponse]
    /\ log = [r \in Reqs |-> <<>>]
    /\ lookupOut = [r \in Reqs |-> NoOutcome]
    /\ payOut = [r \in Reqs |-> NoOutcome]
    /\ ResetInit

\* every request is idle: none is between its arrival and its response
Alone(r) == \A q \in Reqs : pc[q] = "idle"

Returns(r) ==
    \/ /\ pc[r] = "lookup"
       /\ \E out \in LookupOutcomes(IdsOf(ItemsOf(body[r]).elems)) : LookupReturn(r, out)
    \/ /\ pc[r] = "pay"
       /\ \E out \in PayOutcomes : PayReturn(r, out)
    \/ Forget(r)

\* server.js; a request arrives when no other is in flight; every cart
Init == InitWith("server.js")
Next ==
    \/ \E r \in Reqs : Alone(r) /\ \E b \in Bodies : Receive(r, b)
    \/ \E r \in Reqs : Returns(r)
Spec == Init /\ [][Next]_vars

\* part_000; a request arrives when no other is in flight; every cart
InitPart000 == InitWith("part_000")
SpecPart000 == InitPart000 /\ [][Next]_vars

\* server.js; two requests interleaved at their awaits
NextConc ==
    \/ \E r \in Reqs : pc[r] = "idle" /\ \E b \in ConcBodies : Receive(r, b)
    \/ \E r \in Reqs : Returns(r)
SpecConc == Init /\ [][NextConc]_vars



\* the password reset handlers, one run of each at a time, and the clock
NextReset ==
    \/ Tick
    \/ \E e \in Emails : RqReceive(e)
    \/ \E out \in {"ok", "error", "throw"} : RqFindReturn(out)
    \/ \E out \in {"ok", "error", "throw"} : RqInsertReturn(out)
    \/ \E out \in {"ok", "throw"} : RqMailReturn(out)
    \/ RqForget
    \/ \E tk \in TokenInputs : \E pw \in PasswordInputs : RsReceive(tk, pw)
    \/ \E out \in {"data", "error", "throw"} : RsSelectReturn(out)
    \/ \E out \in UpdateOutcomes : RsUpdateReturn(out)
    \/ RsForget
InitReset == Init /\ DOMAIN store = {"p1"}
SpecReset == InitReset /\ [][NextReset]_vars

-----------------------------------------------------------------------------
(* Vocabulary of the properties *)

\* the cart the handler works on
CartOf(r) == ItemsOf(body[r]).elems

\* how often event e is in the log of request r
Count(r, e) == Cardinality({i \in DOMAIN log[r] : log[r][i] = e})

\* the Payment Session Service was called for request r
Submitted(r) == Count(r, "pay_call") > 0

\* round(price * 100)
RoundCents(price) == MathRound(Times100(ToNumber(price)))

\* a finite integer > 0
PositiveInteger(v) == v.t = "number" /\ v.n > 0 /\ v.n % 1000 = 0

\* the lookup answered with rows and every item's id is among them
AllIdsFound(r) ==
    /\ lookupOut[r].kind = "rows"
    /\ \A i \in DOMAIN CartOf(r) :
          /\ Truthy(CartOf(r)[i].id)
          /\ CartOf(r)[i].id.s \in DOMAIN lookupOut[r].rows

-----------------------------------------------------------------------------
\* C1: when the lookup returned every item's id, each line item submitted to
\* the Payment Session Service has unit_amount = round(authoritative price *
\* 100), whatever price the client sent.
C1_AuthoritativePrice ==
    \A r \in Reqs :
        (Submitted(r) /\ AllIdsFound(r)) =>
            /\ Len(payReq[r].line_items) = Len(CartOf(r))
            /\ \A i \in DOMAIN CartOf(r) :
                  payReq[r].line_items[i].unit_amount =
                      RoundCents(lookupOut[r].rows[CartOf(r)[i].id.s])

\* a submitted two-item cart, all ids found, whose client prices (one missing,
\* one a different number) are not the stored ones
C1_Witness ==
    \E r \in Reqs :
        /\ Submitted(r) /\ AllIdsFound(r)
        /\ Len(CartOf(r)) = 2
        /\ CartOf(r)[1].price = Undef
        /\ CartOf(r)[2].price = Num(100000)
        /\ payReq[r].line_items[2].unit_amount = Num(1250000)

\* the resolved price of item i of request r is zero, negative, non-finite or
\* rounds to 0 minor units
BadPrice(r, i) ==
    LET n == ToNumber(priceDollars(CartOf(r)[i], priceById[r]))
    IN  \/ n.t \in {"nan", "inf", "neginf"}
        \/ n.t = "number" /\ n.n <= 0
        \/ n.t = "number" /\ RoundCents(n) = Num(0)

\* the handler of request r is past its price lookup
Priced(r) == pc[r] \in {"pay", "done"} /\ lookupOut[r].kind # "throw"
             /\ Len(CartOf(r)) > 0

\* first half of C2: a cart with a bad resolved price at any position is
\* rejected, nothing is submitted, and the error names an offending item
C2_BadPriceRejected ==
    \A r \in Reqs :
        (Priced(r) /\ \E i \in DOMAIN CartOf(r) : BadPrice(r, i)) =>
            /\ ~Submitted(r)
            /\ pc[r] = "done"
            /\ response[r].status = 500
            /\ \E i \in DOMAIN CartOf(r) :
                  /\ BadPrice(r, i)
                  /\ response[r].error.name = productName(CartOf(r)[i], i)

\* C2: a bad resolved price at any position rejects the whole request with an
\* error naming the item and, equivalently, every line item submitted to the
\* Payment Session Service has a finite integer unit_amount > 0.
C2_Original ==
    /\ C2_BadPriceRejected
    /\ \A r \in Reqs :
          Submitted(r) =>
              \A i \in DOMAIN payReq[r].line_items :
                  PositiveInteger(payReq[r].line_items[i].unit_amount)

\* C3: a request whose cart is absent or an empty array is answered with the
\* 400 error and neither the Price Store nor the Payment Session Service is
\* called for it.
C3_EmptyCartNoCalls ==
    \A r \in Reqs :
        (pc[r] # "idle" /\ (~ItemsOf(body[r]).present \/ CartOf(r) = <<>>)) =>
            /\ log[r] = <<"respond">>
            /\ pc[r] = "done"
            /\ response[r] = EmptyCartResponse

\* an empty cartItems array beside a non-empty cart, answered 400
C3_Witness ==
    \E r \in Reqs :
        /\ pc[r] = "done"
        /\ body[r].cartItems = Arr(<<>>)
        /\ Len(body[r].cart.elems) = 1
        /\ response[r].status = 400


\* the quantity of a cart item is missing, zero or negative
NoPositiveQuantity(q) ==
    \/ q.t \in {"undefined", "null"}
    \/ q.t = "number" /\ q.n <= 0

\* a positive integer, also when written as a numeric string
PositiveIntegerValue(v) == PositiveInteger(ToNumber(v))

\* C4: an emitted quantity is 1 when item.quantity is missing, zero or
\* negative and item.quantity otherwise; so every emitted quantity is a
\* positive integer.
C4_Original ==
    \A r \in Reqs :
        Submitted(r) =>
            \A i \in DOMAIN payReq[r].line_items :
                /\ payReq[r].line_items[i].quantity =
                      IF NoPositiveQuantity(CartOf(r)[i].quantity)
                      THEN Num(1000) ELSE CartOf(r)[i].quantity
                /\ PositiveIntegerValue(payReq[r].line_items[i].quantity)

\* the display name the claim gives the item at 1-based position idx; a name
\* or title that is the empty string counts as not present
NameByPrecedence(item, idx) ==
    CASE item.name.t = "string" /\ item.name.s # "" -> item.name.s
      [] item.title.t = "string" /\ item.title.s # "" -> item.title.s
      [] OTHER -> "Item " \o ToString(idx)

\* C5: the line items are as many as the cart items and in their order, the
\* one at position N named item.name, else item.title, else "Item N"; the
\* error for an invalid price carries that same name.
C5_NamesInOrder ==
    \A r \in Reqs :
        /\ Submitted(r) =>
              /\ Len(payReq[r].line_items) = Len(CartOf(r))
              /\ \A i \in DOMAIN CartOf(r) :
                    payReq[r].line_items[i].name =
                        NameByPrecedence(CartOf(r)[i], i)
        /\ response[r].error.msg = "Invalid price for item" =>
              \E i \in DOMAIN CartOf(r) :
                  /\ ~Truthy(ToCentsIn(handler, priceDollars(CartOf(r)[i], priceById[r])))
                  /\ response[r].error.name = NameByPrecedence(CartOf(r)[i], i)

\* a submitted cart of two items, the first named by its title although it
\* has an empty name, the second by its position
C5_Witness ==
    \E r \in Reqs :
        /\ Submitted(r)
        /\ Len(CartOf(r)) = 2
        /\ CartOf(r)[1].name = Str("") /\ CartOf(r)[1].title = Str("T")
        /\ CartOf(r)[2].name = Undef /\ CartOf(r)[2].title = Undef
        /\ payReq[r].line_items[1].name = "T"
        /\ payReq[r].line_items[2].name = "Item 2"

\* an invalid price named by position in the error
C5_WitnessError ==
    \E r \in Reqs :
        /\ Len(CartOf(r)) = 2
        /\ response[r].error.msg = "Invalid price for item"
        /\ response[r].error.name = "Item 2"

\* the client-supplied price of the item is valid
ClientPriceValid(item) == PositiveInteger(toCents(item.price))

\* C6: a failed Price Store lookup, returned as an error or thrown, does not
\* end the request: every item is priced from the client's price, and the
\* request is rejected only for an invalid client price or a failed payment
\* call.
C6_Original ==
    \A r \in Reqs :
        (pc[r] \in {"pay", "done"} /\ lookupOut[r].kind \in {"error", "throw"}) =>
            /\ (\A i \in DOMAIN CartOf(r) : ClientPriceValid(CartOf(r)[i])) =>
                  /\ Submitted(r)
                  /\ \A i \in DOMAIN CartOf(r) :
                        payReq[r].line_items[i].unit_amount =
                            RoundCents(CartOf(r)[i].price)
            /\ response[r].status = 500 =>
                  \/ \E i \in DOMAIN CartOf(r) : ~ClientPriceValid(CartOf(r)[i])
                  \/ payOut[r].kind = "throw"

\* the part of C6 about a lookup that returns an error object, for items
\* whose id is no property name of Object.prototype
C6_ReturnedErrorAbsorbed ==
    \A r \in Reqs :
        (/\ pc[r] \in {"pay", "done"} /\ lookupOut[r].kind = "error"
         /\ \A i \in DOMAIN CartOf(r) : CartOf(r)[i].id.s \notin PrototypeKeys) =>
            /\ (\A i \in DOMAIN CartOf(r) : ClientPriceValid(CartOf(r)[i])) =>
                  /\ Submitted(r)
                  /\ \A i \in DOMAIN CartOf(r) :
                        payReq[r].line_items[i].unit_amount =
                            RoundCents(CartOf(r)[i].price)
            /\ response[r].status = 500 =>
                  \/ \E i \in DOMAIN CartOf(r) : ~ClientPriceValid(CartOf(r)[i])
                  \/ payOut[r].kind = "throw"

\* C7: a request is answered exactly once; after a successful payment call
\* the response carries the url and id the service returned, after a failed
\* one it is an error without url or id.
C7_OneResponse ==
    \A r \in Reqs :
        /\ Count(r, "respond") = (IF pc[r] = "done" THEN 1 ELSE 0)
        /\ (response[r] # NoResponse) <=> (pc[r] = "done")
        /\ payOut[r].kind = "session" =>
              response[r] = [status |-> 200, error |-> NoError,
                             url |-> payOut[r].url, id |-> payOut[r].id]
        /\ payOut[r].kind = "throw" =>
              /\ response[r].status = 500
              /\ response[r].url = "" /\ response[r].id = ""

\* a request answered with the second session of the service
C7_Witness ==
    \E r \in Reqs :
        /\ pc[r] = "done"
        /\ payOut[r] = [kind |-> "session", url |-> "u2", id |-> "s2"]
        /\ response[r].url = "u2" /\ response[r].id = "s2"

\* a request answered 500 after the payment call failed
C7_WitnessFailed ==
    \E r \in Reqs : pc[r] = "done" /\ payOut[r].kind = "throw"
                    /\ response[r].status = 500


\* What request r computes when it runs alone on its own body and on the
\* answers the two services gave it: its price mapping, its line items and
\* its response.
SoloPrices(r) ==
    IF lookupOut[r].kind = "rows"
    THEN [k \in DOMAIN lookupOut[r].rows |-> ToNumber(lookupOut[r].rows[k])]
    ELSE EmptyMap

SoloBuild(r) == BuildLineItems("server.js", CartOf(r), SoloPrices(r))

SoloResponse(r) ==
    CASE pc[r] # "done" -> NoResponse
      [] CartIsEmpty(ItemsOf(body[r])) -> EmptyCartResponse
      [] lookupOut[r].kind = "throw" -> ErrorResponse(LookupFailed)
      [] SoloBuild(r).threw -> ErrorResponse(SoloBuild(r).error)
      [] payOut[r].kind = "session" ->
            [status |-> 200, error |-> NoError,
             url |-> payOut[r].url, id |-> payOut[r].id]
      [] OTHER -> ErrorResponse(PayFailed)

\* C8: under every interleaving of two requests at their awaits, the price
\* mapping, the line items and the response of each request are those of the
\* request run alone.
C8_NoInterference ==
    \A r \in Reqs :
        pc[r] # "idle" =>
            /\ lookupOut[r].kind = "rows" =>
                  lookupOut[r].rows = SelectIn(store, IdsOf(CartOf(r)))
            /\ priceById[r] = SoloPrices(r)
            /\ Submitted(r) => payReq[r].line_items = SoloBuild(r).line_items
            /\ ~Submitted(r) => payReq[r] = NoPayReq
            /\ response[r] = SoloResponse(r)

\* both requests await the payment call at once, with different price
\* mappings, one of them empty
C8_Witness ==
    /\ \A r \in Reqs : pc[r] = "pay"
    /\ priceById["r1"] # priceById["r2"]
    /\ priceById["r1"] # EmptyMap
    /\ priceById["r2"] = EmptyMap
    /\ lookupOut["r2"].kind = "error"

\* place of the first event e in the log of r (0 when there is none)
FirstAt(r, e) ==
    IF Count(r, e) = 0 THEN 0
    ELSE CHOOSE i \in DOMAIN log[r] :
            log[r][i] = e /\ \A j \in DOMAIN log[r] : log[r][j] = e => i <= j

\* C9: a request makes at most one Price Store lookup (none when no item has
\* an id) and at most one payment call, the lookup has returned before the
\* payment call is issued, and nothing follows the response.
C9_NoRetry ==
    \A r \in Reqs :
        /\ Count(r, "lookup_call") <= 1
        /\ Count(r, "pay_call") <= 1
        /\ Count(r, "lookup_call") = Count(r, "lookup_return")
              + (IF pc[r] = "lookup" THEN 1 ELSE 0)
        /\ (pc[r] # "idle" /\ \A i \in DOMAIN CartOf(r) : ~Truthy(CartOf(r)[i].id))
              => Count(r, "lookup_call") = 0
        /\ (Submitted(r) /\ Count(r, "lookup_call") = 1) =>
              /\ FirstAt(r, "lookup_call") < FirstAt(r, "lookup_return")
              /\ FirstAt(r, "lookup_return") < FirstAt(r, "pay_call")
        /\ Count(r, "respond") > 0 =>
              /\ FirstAt(r, "respond") = Len(log[r])
              /\ pc[r] = "done"

\* a request that looked prices up, called the payment service, got a failure
\* and answered 500, each once
C9_Witness ==
    \E r \in Reqs :
        /\ log[r] = <<"lookup_call", "lookup_return", "pay_call",
                      "pay_return", "respond">>
        /\ response[r].status = 500

\* a cart whose only id is the empty string: no lookup
C9_WitnessNoId ==
    \E r \in Reqs :
        /\ pc[r] = "done"
        /\ Len(CartOf(r)) > 0
        /\ \E i \in DOMAIN CartOf(r) : CartOf(r)[i].id = Str("")
        /\ Count(r, "lookup_call") = 0

\* the resolved price of item i of request r is zero, negative or non-finite
ZeroNegativeOrNonFinite(r, i) ==
    LET n == ToNumber(priceDollars(CartOf(r)[i], priceById[r]))
    IN  \/ n.t \in {"nan", "inf", "neginf"}
        \/ n.t = "number" /\ n.n <= 0

\* C10: in part_000 too, a cart with a zero, negative or non-finite resolved
\* price at any position is rejected and the Payment Session Service is not
\* called for it (which is what keeps every submitted unit_amount a finite
\* integer > 0).
C10_Original ==
    \A r \in Reqs :
        (Priced(r) /\ \E i \in DOMAIN CartOf(r) : ZeroNegativeOrNonFinite(r, i))
            => ~Submitted(r)

\* the consequence C10 draws: every unit_amount submitted is a finite
\* integer > 0
C10_UnitAmounts ==
    \A r \in Reqs :
        Submitted(r) =>
            \A i \in DOMAIN payReq[r].line_items :
                PositiveInteger(payReq[r].line_items[i].unit_amount)


\* the stored rows that carry the token of the reset-password run
RowsOfRun == {x \in tokens : x.token = resetRun.token}

\* C11: reset-password calls the password update only for a token that is in
\* the token store and whose expires_at is not earlier than the time of the
\* check, and for the user_id stored with that token; with a missing, unknown
\* or expired token or a missing newPassword no update is called and the
\* response is an error.  A password is changed only by such an update.
C11_OnlyValidToken ==
    /\ resetRun.updateCalls > 0 =>
          /\ resetRun.token # "" /\ resetRun.newPassword # ""
          /\ \E x \in RowsOfRun :
                /\ DateOf(x.expires_at) >= resetRun.checkedAt
                /\ resetRun.target = x.user_id
    /\ (/\ resetRun.pc = "done"
        /\ \/ resetRun.token = ""
           \/ resetRun.newPassword = ""
           \/ RowsOfRun = {}
           \/ \E x \in RowsOfRun : DateOf(x.expires_at) < resetRun.checkedAt) =>
          /\ resetRun.updateCalls = 0
          /\ resetRun.status \in {400, 500}
          /\ resetRun.error # ""
    /\ \A a \in applied :
          \E x \in tokens : x.token = a.token /\ x.user_id = a.user_id
    /\ \A u \in Users :
          passwords[u] # InitialPassword => \E a \in applied : a.user_id = u

\* a password changed with a token checked at the very instant it expires
C11_Witness ==
    /\ resetRun.pc = "done" /\ resetRun.status = 200
    /\ \E x \in RowsOfRun : DateOf(x.expires_at) = resetRun.checkedAt
    /\ passwords[resetRun.target] = "pwA"

\* a stored token refused one tick after its expiry
C11_WitnessExpired ==
    /\ resetRun.pc = "done" /\ resetRun.error = "Token expired"
    /\ \E x \in RowsOfRun : DateOf(x.expires_at) + 1 = resetRun.checkedAt

\* the run of reset-password was answered by the token store with a row that
\* has not expired at the time of the check
AcceptableRun ==
    /\ resetRun.pc \in {"update", "done"}
    /\ resetRun.select = "data"
    /\ resetRun.row # NoRow
    /\ DateOf(resetRun.row.expires_at) >= resetRun.checkedAt

\* C12: no step of reset-password changes the token store and no step at all
\* removes a row from it; so a stored token presented before its expiry is
\* accepted every time, however often it was used and whatever tokens were
\* issued for the same user since (the call succeeds when the store answers
\* and the update succeeds).
C12_TokensNeverConsumed ==
    /\ [](AcceptableRun =>
            /\ resetRun.row \in tokens
            /\ resetRun.updateCalls = 1
            /\ resetRun.target = resetRun.row.user_id
            /\ resetRun.update = "ok" => resetRun.status = 200)
    /\ [][/\ tokens \subseteq tokens'
          /\ resetRun' # resetRun => tokens' = tokens]_vars

\* a token that already changed a password changes it again, while another
\* token of the same user is in the store
C12_Witness ==
    /\ resetRun.pc = "done" /\ resetRun.status = 200
    /\ resetRun.reused
    /\ resetRun.sibling

\* the older of a user's two tokens is accepted after the newer was issued
C12_WitnessOlder ==
    /\ resetRun.pc = "done" /\ resetRun.status = 200
    /\ resetRun.token = TokenName(1)
    /\ \E x \in tokens : x.token = TokenName(2) /\ x.user_id = resetRun.target
    /\ resetRun.sibling

=============================================================================
